---- MODULE Spec2Model ----
(***************************************************************************)
(* A model of the notebook                                                 *)
(*   examples/vector_databases/qdrant/Using_Qdrant_for_embeddings_search   *)
(* run top to bottom: the stringified vector columns of article_df are     *)
(* parsed, the collection 'Articles' is recreated, every row is upserted   *)
(* one request at a time, the collection is counted and query_qdrant is    *)
(* called.  The vector database and the embeddings API are remote         *)
(* services: every request to them is sent, is outstanding, and then       *)
(* returns or raises.                                                      *)
(***************************************************************************)
EXTENDS Integers, Sequences, FiniteSets, TLC

VARIABLES
    pc,             \* the statement of the notebook that runs next
    article_df,     \* the dataframe: a sequence of rows, index k is row k+1
    vector_size,    \* the global vector_size (0 until it is assigned)
    qdrant,         \* the server's collections, by name
    k,              \* the index the upsert loop attempts next
    inflight,       \* the requests sent and not yet answered
    log,            \* what has happened so far, in order
    stdout,         \* what the notebook has printed
    count_result,   \* the value of the count cell (-1 until it has run)
    frame,          \* the locals of the running call of query_qdrant
    query_results,  \* the global query_results
    calls,          \* how many calls of query_qdrant have been started
    last_call,      \* the frame of the call whose results are being printed
    error           \* the exception that ended the run ("" while it runs)

vars == <<pc, article_df, vector_size, qdrant, k, inflight, log, stdout,
          count_result, frame, query_results, calls, last_call, error>>

----------------------------------------------------------------------------
(* Bounds of the model. *)

\* the number of rows of the dataframe is 0..MaxRows
MaxRows == 2

\* the number of calls of query_qdrant is at most MaxCalls; the first two are
\* the notebook's own two query cells
MaxCalls == 3

----------------------------------------------------------------------------
(* Program constants. *)

EMBEDDING_MODEL == "text-embedding-ada-002"

\* the default of query_qdrant's parameter top_k
DefaultTopK == 20

\* the default of query_qdrant's parameter vector_name
DefaultVectorName == "title"

\* the name the notebook gives the collection
Articles == "Articles"

COSINE == "Cosine"

\* the collections a request can name: the notebook's, and one that is never
\* created
CollectionNames == {Articles, "Other"}

\* the named vector fields a point of the collection has
VectorNames == {"title", "content"}

----------------------------------------------------------------------------
(* Values: strings of the CSV file, and the lists literal_eval reads back. *)

\* a cell of a vector column: a str before the parse, a list after it
StrCell(chars) == [t |-> "str", s |-> chars, v |-> <<>>]
ListCell(vals) == [t |-> "list", s |-> <<>>, v |-> vals]

Digits == {"1", "2"}
DigitValue(c) == IF c = "1" THEN 1 ELSE 2

\* the parse of the characters between the brackets: digits separated by
\* commas; ok is FALSE where literal_eval raises
RECURSIVE ParseItems(_)
ParseItems(chars) ==
    IF chars = <<>> THEN [ok |-> FALSE, val |-> <<>>]
    ELSE IF chars[1] \notin Digits THEN [ok |-> FALSE, val |-> <<>>]
    ELSE IF Len(chars) = 1 THEN [ok |-> TRUE, val |-> <<DigitValue(chars[1])>>]
    ELSE IF chars[2] # "," THEN [ok |-> FALSE, val |-> <<>>]
    ELSE LET rest == ParseItems(SubSeq(chars, 3, Len(chars)))
         IN  [ok |-> rest.ok,
              val |-> IF rest.ok THEN <<DigitValue(chars[1])>> \o rest.val
                      ELSE <<>>]

\* ast.literal_eval on the string of a list of numbers
literal_eval(chars) ==
    IF Len(chars) >= 2 /\ chars[1] = "[" /\ chars[Len(chars)] = "]"
    THEN IF Len(chars) = 2 THEN [ok |-> TRUE, val |-> <<>>]
         ELSE ParseItems(SubSeq(chars, 2, Len(chars) - 1))
    ELSE [ok |-> FALSE, val |-> <<>>]

\* the strings a vector cell of the CSV file holds in this model
Raw12 == <<"[", "1", ",", "2", "]">>
Raw21 == <<"[", "2", ",", "1", "]">>
Raw1 == <<"[", "1", "]">>
RawBad == <<"[", "1", ",">>

\* the (title_vector, content_vector) strings a row of the file can hold
RowShapes ==
    { <<Raw12, Raw21>>, <<Raw21, Raw12>>, <<Raw1, Raw12>>, <<Raw12, Raw1>>,
      <<Raw12, RawBad>>, <<RawBad, Raw12>> }

\* the columns id, url, title and text of the first rows of the file
ArticleIds == <<1, 2, 6, 8>>
ArticleTitles == <<"April", "August", "Art", "A">>
ArticleUrls == <<"wiki/April", "wiki/August", "wiki/Art", "wiki/A">>
ArticleTexts == <<"April is", "August is", "Art is", "A or a">>

\* row i of the file as pd.read_csv loads it (vector_id is an int64 there)
CsvRow(i, shape) ==
    [id |-> ArticleIds[i], url |-> ArticleUrls[i], title |-> ArticleTitles[i],
     text |-> ArticleTexts[i],
     title_vector |-> StrCell(shape[1]),
     content_vector |-> StrCell(shape[2]),
     vector_id |-> [t |-> "int", i |-> i - 1, s |-> ""]]

\* the dataframes pd.read_csv can produce: 0..MaxRows rows, a RangeIndex
Dataframes ==
    UNION { { [i \in 1..n |-> CsvRow(i, shapes[i])] : shapes \in [1..n -> RowShapes] }
            : n \in 0..MaxRows }

----------------------------------------------------------------------------
(* The vector database: what the server does with a request it accepts.    *)

RECURSIVE Dot(_, _)
Dot(a, b) == IF a = <<>> THEN 0 ELSE a[1] * b[1] + Dot(Tail(a), Tail(b))

Isqrt(n) == CHOOSE r \in 0..n : r * r <= n /\ n < (r + 1) * (r + 1)

\* the cosine similarity of two vectors of one dimension, in units of 0.0001
CosineE4(a, b) ==
    LET norms == Isqrt(Dot(a, a) * Dot(b, b))
    IN  IF norms = 0 THEN 0 ELSE (10000 * Dot(a, b)) \div norms

\* a collection that does not exist
NoCollection == [exists |-> FALSE, config |-> <<>>, points |-> {}]

\* a point left in 'Articles' by an earlier session
StalePoint ==
    [id |-> 99,
     vector |-> [title |-> <<2, 1>>, content |-> <<2, 1>>],
     payload |-> [id |-> 100, title |-> "Stale", url |-> "wiki/Stale"]]

\* 'Articles' as an earlier session left it (get_collections lists it)
StaleCollection ==
    [exists |-> TRUE,
     config |-> [title |-> [size |-> 2, distance |-> COSINE],
                 content |-> [size |-> 2, distance |-> COSINE]],
     points |-> {StalePoint}]

\* whether the server accepts point p in a collection configured by config:
\* every named vector has the size declared for its name
PointFits(config, p) ==
    /\ DOMAIN p.vector \subseteq DOMAIN config
    /\ \A name \in DOMAIN p.vector : Len(p.vector[name]) = config[name].size

\* the server's recreate_collection: whatever the collection held is dropped
DbRecreate(db, req) ==
    [db EXCEPT ![req.collection_name] =
        [exists |-> TRUE, config |-> req.vectors_config, points |-> {}]]

\* whether the server accepts an upsert request
DbUpsertAccepts(db, req) ==
    /\ db[req.collection_name].exists
    /\ \A i \in 1..Len(req.points) :
           PointFits(db[req.collection_name].config, req.points[i])

\* the server's upsert: a point replaces the point of the same id
DbUpsert(db, req) ==
    LET new == {req.points[i] : i \in 1..Len(req.points)}
        ids == {p.id : p \in new}
    IN  [db EXCEPT ![req.collection_name].points =
            {p \in @ : p.id \notin ids} \cup new]

\* the server's count
DbCount(db, req) == Cardinality(db[req.collection_name].points)

\* whether the server accepts a search request
DbSearchAccepts(db, req) ==
    /\ db[req.collection_name].exists
    /\ req.query_vector[1] \in DOMAIN db[req.collection_name].config
    /\ Len(req.query_vector[2]) =
           db[req.collection_name].config[req.query_vector[1]].size
    /\ req.limit >= 1

\* the search result for one point: vectors are not returned
ScoredPoint(p, name, vec) ==
    [id |-> p.id, score |-> CosineE4(p.vector[name], vec), payload |-> p.payload]

\* the n best of a set of scored points, best first (ties by id)
RECURSIVE Best(_, _)
Best(scored, n) ==
    IF n = 0 \/ scored = {} THEN <<>>
    ELSE LET top == CHOOSE p \in scored : \A q \in scored :
                        \/ p.score > q.score
                        \/ (p.score = q.score /\ p.id <= q.id)
         IN  <<top>> \o Best(scored \ {top}, n - 1)

\* the points a filter lets through; None lets every point through
Candidates(points, filter) ==
    IF filter = "None" THEN points ELSE {p \in points : p.payload.title = filter}

\* the server's search: the limit nearest candidates by the named vector
DbSearch(db, req) ==
    LET name == req.query_vector[1]
        vec == req.query_vector[2]
        cand == Candidates(db[req.collection_name].points, req.query_filter)
    IN  Best({ScoredPoint(p, name, vec) : p \in cand}, req.limit)

----------------------------------------------------------------------------
(* The embeddings API. *)

\* the length of the vectors a model produces
ModelDim(model) == IF model = EMBEDDING_MODEL THEN 2 ELSE 1

\* the embedding of a text by a model: one vector per text, of the model's length
Embedding(model, input) ==
    IF ModelDim(model) = 2
    THEN IF input = "modern art in Europe" THEN <<1, 2>> ELSE <<2, 1>>
    ELSE <<1>>

\* the vectors the API can answer a request with
Embeddings(req) == {Embedding(req.model, req.input)}

----------------------------------------------------------------------------
(* The notebook's state before its first cell of interest runs. *)

NoArgs == [query |-> "", collection_name |-> "", vector_name |-> {}, top_k |-> {}]

NoFrame ==
    [active |-> FALSE, args |-> NoArgs, query |-> "", collection_name |-> "",
     vector_name |-> "", top_k |-> 0, embedded_query |-> <<>>]

Event(ev, n) == [ev |-> ev, n |-> n]

Init ==
    /\ pc = "parse_title"
    /\ article_df \in Dataframes
    /\ vector_size = 0
    /\ qdrant \in { [c \in CollectionNames |-> NoCollection],
                    [c \in CollectionNames |->
                        IF c = Articles THEN StaleCollection ELSE NoCollection] }
    /\ k = 0
    /\ inflight = {}
    /\ log = <<>>
    /\ stdout = <<>>
    /\ count_result = -1
    /\ frame = NoFrame
    /\ query_results = <<>>
    /\ calls = 0
    /\ last_call = NoFrame
    /\ error = ""

\* an exception no handler catches ends the run: the later cells do not run
Abort(exc, ev) ==
    /\ pc' = "aborted"
    /\ error' = exc
    /\ inflight' = {}
    /\ frame' = NoFrame
    /\ log' = Append(log, ev)

----------------------------------------------------------------------------
(* Cell 960b82af: the vector columns are read back into lists. *)

\* column.apply(literal_eval): every cell is parsed, or the statement raises
ApplyLiteralEval(df, col) ==
    LET parsed == [i \in 1..Len(df) |-> literal_eval(df[i][col].s)]
    IN  [ok |-> \A i \in 1..Len(df) : parsed[i].ok,
         df |-> [i \in 1..Len(df) |->
                    [df[i] EXCEPT ![col] = ListCell(parsed[i].val)]]]

ParseColumn(at, col, next) ==
    /\ pc = at
    /\ LET r == ApplyLiteralEval(article_df, col)
       IN  IF r.ok
           THEN /\ article_df' = r.df
                /\ pc' = next
                /\ log' = Append(log, Event(at, 0))
                /\ UNCHANGED <<inflight, frame, error,
                   last_call>>
           ELSE /\ Abort("SyntaxError", Event("parse_raised", 0))
                /\ UNCHANGED article_df
    /\ UNCHANGED <<vector_size, qdrant, k, stdout, count_result, query_results,
                   calls,
                   last_call>>

ParseTitleVectors == ParseColumn("parse_title", "title_vector", "parse_content")

ParseContentVectors == ParseColumn("parse_content", "content_vector", "vector_id")

\* article_df['vector_id'].apply(str)
VectorIdToStr ==
    /\ pc = "vector_id"
    /\ article_df' =
          [i \in 1..Len(article_df) |->
              [article_df[i] EXCEPT !.vector_id =
                  [t |-> "str", i |-> 0, s |-> ToString(@.i)]]]
    /\ pc' = "recreate1"
    /\ log' = Append(log, Event("vector_id", 0))
    /\ UNCHANGED <<vector_size, qdrant, k, inflight, stdout, count_result, frame,
                   query_results, calls, error,
                   last_call>>

----------------------------------------------------------------------------
(* Cells 00876f92 and 9f39a8c395554ca3: the collection is recreated. *)

\* VectorSize read from the title vector of the first row
VectorSizeFromTitle(df) == Len(df[1].title_vector.v)

\* len(article_df['content_vector'][0])
VectorSize(df) == Len(df[1].content_vector.v)

VectorsConfig(size) ==
    [title |-> [size |-> size, distance |-> COSINE],
     content |-> [size |-> size, distance |-> COSINE]]

RecreateRequest(size) ==
    [op |-> "recreate_collection", collection_name |-> Articles,
     vectors_config |-> VectorsConfig(size)]

\* vector_size is assigned and the request is sent; [0] of an empty column raises
RecreateSend(at) ==
    /\ pc = at
    /\ inflight = {}
    /\ IF Len(article_df) = 0
       THEN /\ Abort("KeyError", Event("vector_size_raised", 0))
            /\ UNCHANGED vector_size
       ELSE /\ vector_size' = VectorSize(article_df)
            /\ inflight' = {RecreateRequest(vector_size')}
            /\ log' = Append(log, Event("recreate_sent", 0))
            /\ UNCHANGED <<pc, frame, error,
                   last_call>>
    /\ UNCHANGED <<article_df, qdrant, k, stdout, count_result, query_results,
                   calls,
                   last_call>>

\* the request returns True, or raises
RecreateReturn(at, next) ==
    /\ pc = at
    /\ \E req \in inflight :
          \/ /\ qdrant' = DbRecreate(qdrant, req)
             /\ inflight' = {}
             /\ pc' = next
             /\ log' = Append(log, Event("recreate_returned", 0))
             /\ UNCHANGED <<frame, error,
                   last_call>>
          \/ /\ Abort("UnexpectedResponse", Event("recreate_raised", 0))
             /\ UNCHANGED qdrant
    /\ UNCHANGED <<article_df, vector_size, k, stdout, count_result,
                   query_results, calls,
                   last_call>>

RecreateCollection ==
    \/ RecreateSend("recreate1")
    \/ RecreateReturn("recreate1", "recreate2")

RecreateCollectionAgain ==
    \/ RecreateSend("recreate2")
    \/ RecreateReturn("recreate2", "upsert")

----------------------------------------------------------------------------
(* Cell f24e76ab: the upsert loop. *)

\* PointStruct with the two vectors the wrong way round
PointStructSwapped(kk, v) ==
    [id |-> kk,
     vector |-> [title |-> v.content_vector.v, content |-> v.title_vector.v],
     payload |-> [id |-> v.id, title |-> v.title, url |-> v.url]]

\* the PointStruct of row v at index kk
PointStruct(kk, v) ==
    [id |-> kk,
     vector |-> [title |-> v.title_vector.v, content |-> v.content_vector.v],
     payload |-> [id |-> v.id, title |-> v.title, url |-> v.url]]

\* UpsertRequest batching: the whole dataframe in one request
UpsertRequestBatched(kk, v) ==
    [op |-> "upsert", collection_name |-> Articles,
     points |-> [i \in 1..Len(article_df) |-> PointStruct(i - 1, article_df[i])]]

UpsertRequest(kk, v) ==
    [op |-> "upsert", collection_name |-> Articles,
     points |-> <<PointStruct(kk, v)>>]

\* NextIndex stepping over a row
NextIndexSkipping(kk) == kk + 2

\* the index iterrows yields after index kk
NextIndex(kk) == kk + 1

\* the loop's body up to the call: the request for row k is sent
UpsertSend ==
    /\ pc = "upsert"
    /\ inflight = {}
    /\ k < Len(article_df)
    /\ inflight' = {UpsertRequest(k, article_df[k + 1])}
    /\ log' = Append(log, Event("upsert_sent", k))
    /\ UNCHANGED <<pc, article_df, vector_size, qdrant, k, stdout, count_result,
                   frame, query_results, calls, error,
                   last_call>>

\* the call returns
UpsertReturn ==
    /\ pc = "upsert"
    /\ \E req \in inflight :
          /\ DbUpsertAccepts(qdrant, req)
          /\ qdrant' = DbUpsert(qdrant, req)
    /\ inflight' = {}
    /\ k' = NextIndex(k)
    /\ log' = Append(log, Event("upsert_returned", k))
    /\ UNCHANGED <<pc, article_df, vector_size, stdout, count_result, frame,
                   query_results, calls, error,
                   last_call>>

\* UpsertRaise without the try: the exception ends the run
UpsertRaiseUncaught ==
    /\ pc = "upsert"
    /\ inflight # {}
    /\ Abort("UnexpectedResponse", Event("upsert_raised", k))
    /\ UNCHANGED <<article_df, vector_size, qdrant, k, stdout, count_result,
                   query_results, calls, last_call>>

\* the call raises (the server refuses the point, or cannot be reached): the
\* except clause prints the row and the exception, and the loop goes on
UpsertRaise ==
    /\ pc = "upsert"
    /\ inflight # {}
    /\ inflight' = {}
    /\ stdout' = stdout \o
          << [line |-> "Failed to upsert row", n |-> k, v |-> article_df[k + 1]],
             [line |-> "Exception", n |-> k,
              e |-> IF \A req \in inflight : DbUpsertAccepts(qdrant, req)
                    THEN "ResponseHandlingException"
                    ELSE "UnexpectedResponse"] >>
    /\ k' = NextIndex(k)
    /\ log' = Append(log, Event("upsert_raised", k))
    /\ UNCHANGED <<pc, article_df, vector_size, qdrant, count_result, frame,
                   query_results, calls, error,
                   last_call>>

\* UpsertLoopEnd leaving the loop one row early
UpsertLoopEndEarly ==
    /\ pc = "upsert"
    /\ inflight = {}
    /\ k + 1 >= Len(article_df)
    /\ pc' = "count"
    /\ log' = Append(log, Event("upsert_loop_end", k))
    /\ UNCHANGED <<article_df, vector_size, qdrant, k, inflight, stdout,
                   count_result, frame, query_results, calls, last_call, error>>

\* iterrows is exhausted
UpsertLoopEnd ==
    /\ pc = "upsert"
    /\ inflight = {}
    /\ k >= Len(article_df)
    /\ pc' = "count"
    /\ log' = Append(log, Event("upsert_loop_end", k))
    /\ UNCHANGED <<article_df, vector_size, qdrant, k, inflight, stdout,
                   count_result, frame, query_results, calls, error,
                   last_call>>

----------------------------------------------------------------------------
(* Cell d1188a12: the collection is counted. *)

CountRequest == [op |-> "count", collection_name |-> Articles]

CountSend ==
    /\ pc = "count"
    /\ inflight = {}
    /\ inflight' = {CountRequest}
    /\ log' = Append(log, Event("count_sent", 0))
    /\ UNCHANGED <<pc, article_df, vector_size, qdrant, k, stdout, count_result,
                   frame, query_results, calls, error,
                   last_call>>

CountReturn ==
    /\ pc = "count"
    /\ \E req \in inflight :
          \/ /\ qdrant[req.collection_name].exists
             /\ count_result' = DbCount(qdrant, req)
             /\ inflight' = {}
             /\ pc' = "query"
             /\ log' = Append(log, Event("count_returned", 0))
             /\ UNCHANGED <<frame, error,
                   last_call>>
          \/ /\ Abort("UnexpectedResponse", Event("count_raised", 0))
             /\ UNCHANGED count_result
    /\ UNCHANGED <<article_df, vector_size, qdrant, k, stdout, query_results,
                   calls,
                   last_call>>

----------------------------------------------------------------------------
(* Cell f1bac4ef: query_qdrant, and the cells that call it. *)

\* an argument left out of a call is the empty set, one given is a singleton
Given(x) == {x}
Omitted == {}
ArgOr(arg, default) == IF arg = {} THEN default ELSE CHOOSE x \in arg : TRUE

Queries == {"modern art in Europe", "Famous battles in Scottish history"}

\* the arguments of the call in cell aa92f3d3
TitleCellArgs ==
    [query |-> "modern art in Europe", collection_name |-> Articles,
     vector_name |-> Given("title"), top_k |-> Omitted]

\* the arguments of the call in cell 7ed116b8
ContentCellArgs ==
    [query |-> "Famous battles in Scottish history", collection_name |-> Articles,
     vector_name |-> Given("content"), top_k |-> Omitted]

\* the arguments of a further call
CallArgs ==
    [query : Queries, collection_name : CollectionNames,
     vector_name : {Omitted, Given("title"), Given("content")},
     top_k : {Omitted, Given(1), Given(2)}]

\* BindArgs dropping the vector_name argument: the default is always used
BindArgsIgnoringVectorName(args) ==
    [active |-> TRUE, args |-> args, query |-> args.query,
     collection_name |-> args.collection_name,
     vector_name |-> DefaultVectorName,
     top_k |-> ArgOr(args.top_k, DefaultTopK),
     embedded_query |-> <<>>]

\* the parameters of query_qdrant bound to the arguments of a call
BindArgs(args) ==
    [active |-> TRUE, args |-> args, query |-> args.query,
     collection_name |-> args.collection_name,
     vector_name |-> ArgOr(args.vector_name, DefaultVectorName),
     top_k |-> ArgOr(args.top_k, DefaultTopK),
     embedded_query |-> <<>>]

\* EmbeddingRequest naming another model than EMBEDDING_MODEL
EmbeddingRequestOtherModel(f) ==
    [op |-> "embeddings.create", input |-> f.query,
     model |-> "text-embedding-3-small"]

\* openai.embeddings.create(input=query, model=EMBEDDING_MODEL)
EmbeddingRequest(f) ==
    [op |-> "embeddings.create", input |-> f.query, model |-> EMBEDDING_MODEL]

\* SearchRequest asking for one result more than top_k
SearchRequestOverLimit(f) ==
    [op |-> "search", collection_name |-> f.collection_name,
     query_vector |-> <<f.vector_name, f.embedded_query>>,
     limit |-> f.top_k + 1, query_filter |-> "None"]

\* qdrant.search(...)
SearchRequest(f) ==
    [op |-> "search", collection_name |-> f.collection_name,
     query_vector |-> <<f.vector_name, f.embedded_query>>,
     limit |-> f.top_k, query_filter |-> "None"]

\* query_qdrant is entered and sends the embedding request
CallQueryQdrant(args) ==
    /\ pc = "query"
    /\ inflight = {}
    /\ calls < MaxCalls
    /\ calls' = calls + 1
    /\ frame' = BindArgs(args)
    /\ inflight' = {EmbeddingRequest(frame')}
    /\ pc' = "embedding"
    /\ log' = Append(log, Event("embed_sent", calls'))
    /\ UNCHANGED <<article_df, vector_size, qdrant, k, stdout, count_result,
                   query_results, error,
                   last_call>>

QueryByTitle == calls = 0 /\ CallQueryQdrant(TitleCellArgs)

QueryByContent == calls = 1 /\ CallQueryQdrant(ContentCellArgs)

QueryFurther == calls >= 2 /\ \E args \in CallArgs : CallQueryQdrant(args)

\* the embedding request returns and the search request is sent
EmbeddingReturn ==
    /\ pc = "embedding"
    /\ \E req \in inflight : \E vec \in Embeddings(req) :
          /\ frame' = [frame EXCEPT !.embedded_query = vec]
          /\ inflight' = {SearchRequest(frame')}
    /\ pc' = "searching"
    /\ log' = log \o <<Event("embed_returned", calls), Event("search_sent", calls)>>
    /\ UNCHANGED <<article_df, vector_size, qdrant, k, stdout, count_result,
                   query_results, calls, error,
                   last_call>>

\* EmbeddingRaise with the exception swallowed: the call returns no results
EmbeddingRaiseSwallowed ==
    /\ pc = "embedding"
    /\ inflight # {}
    /\ inflight' = {}
    /\ query_results' = <<>>
    /\ frame' = NoFrame
    /\ last_call' = frame
    /\ pc' = "print"
    /\ log' = Append(log, Event("embed_raised", calls))
    /\ UNCHANGED <<article_df, vector_size, qdrant, k, stdout, count_result,
                   calls, error>>

\* EmbeddingRaise with a retry: the embedding request is sent again
EmbeddingRaiseRetried ==
    /\ pc = "embedding"
    /\ inflight # {}
    /\ log' = log \o <<Event("embed_raised", calls), Event("embed_sent", calls)>>
    /\ UNCHANGED <<pc, article_df, vector_size, qdrant, k, inflight, stdout,
                   count_result, frame, query_results, calls, last_call, error>>

\* the embedding request raises: nothing in query_qdrant or its cell catches it
EmbeddingRaise ==
    /\ pc = "embedding"
    /\ inflight # {}
    /\ Abort("APIError", Event("embed_raised", calls))
    /\ UNCHANGED <<article_df, vector_size, qdrant, k, stdout, count_result,
                   query_results, calls,
                   last_call>>

\* the search returns: query_qdrant returns its result to the cell
SearchReturn ==
    /\ pc = "searching"
    /\ \E req \in inflight :
          /\ DbSearchAccepts(qdrant, req)
          /\ query_results' = DbSearch(qdrant, req)
    /\ inflight' = {}
    /\ frame' = NoFrame
    /\ last_call' = frame
    /\ pc' = "print"
    /\ log' = Append(log, Event("search_returned", calls))
    /\ UNCHANGED <<article_df, vector_size, qdrant, k, stdout, count_result,
                   calls, error>>

\* the search raises (the server refuses the request, or cannot be reached)
SearchRaise ==
    /\ pc = "searching"
    /\ inflight # {}
    /\ Abort("UnexpectedResponse", Event("search_raised", calls))
    /\ UNCHANGED <<article_df, vector_size, qdrant, k, stdout, count_result,
                   query_results, calls,
                   last_call>>

\* round(score, 3) of a score in units of 0.0001, half to even
Round3(score) ==
    LET q == score \div 10
        r == score % 10
    IN  10 * (IF r > 5 \/ (r = 5 /\ q % 2 = 1) THEN q + 1 ELSE q)

\* the lines the cell's for loop prints for a result list
ResultLines(results) ==
    [i \in 1..Len(results) |->
        [line |-> "result", n |-> i, title |-> results[i].payload.title,
         url |-> results[i].payload.url, score |-> Round3(results[i].score)]]

\* the cell prints the results it was returned
PrintResults ==
    /\ pc = "print"
    /\ stdout' = stdout \o ResultLines(query_results)
    /\ last_call' = NoFrame
    /\ pc' = "query"
    /\ log' = Append(log, Event("printed", calls))
    /\ UNCHANGED <<article_df, vector_size, qdrant, k, inflight, count_result,
                   frame, query_results, calls, error>>

\* the last cell has run
NotebookEnd ==
    /\ pc = "query"
    /\ calls >= 2
    /\ pc' = "done"
    /\ UNCHANGED <<article_df, vector_size, qdrant, k, inflight, log, stdout,
                   count_result, frame, query_results, calls, error,
                   last_call>>

----------------------------------------------------------------------------

Next ==
    \/ ParseTitleVectors
    \/ ParseContentVectors
    \/ VectorIdToStr
    \/ RecreateCollection
    \/ RecreateCollectionAgain
    \/ UpsertSend
    \/ UpsertReturn
    \/ UpsertRaise
    \/ UpsertLoopEnd
    \/ CountSend
    \/ CountReturn
    \/ QueryByTitle
    \/ QueryByContent
    \/ QueryFurther
    \/ EmbeddingReturn
    \/ EmbeddingRaise
    \/ SearchReturn
    \/ SearchRaise
    \/ PrintResults
    \/ NotebookEnd

Spec == Init /\ [][Next]_vars

----------------------------------------------------------------------------
(* Reading the log. *)

\* the positions of the log where event ev happened
At(ev) == {i \in 1..Len(log) : log[i].ev = ev}

\* the positions of the log where event ev happened for index or call n
AtN(ev, n) == {i \in 1..Len(log) : log[i].ev = ev /\ log[i].n = n}

\* the upsert requests sent so far, in the order they were sent
UpsertsSent == SelectSeq(log, LAMBDA e : e.ev = "upsert_sent")

\* the lines the except clause has printed for row kk
FailureLines(kk) ==
    {i \in 1..Len(stdout) :
        /\ stdout[i].line = "Failed to upsert row"
        /\ stdout[i].n = kk
        /\ stdout[i].v = article_df[kk + 1]}

ExceptionLines(kk) ==
    {i \in 1..Len(stdout) : stdout[i].line = "Exception" /\ stdout[i].n = kk}

----------------------------------------------------------------------------
(* C1: an exception raised by the upsert of a row is caught and logged and  *)
(* the loop continues: the rows are attempted once each, in index order,    *)
(* whichever earlier upserts raised, and the loop ends after                *)
(* len(article_df) attempts.                                                *)
C1_EveryRowAttemptedOnce ==
    /\ \A i \in 1..Len(UpsertsSent) : UpsertsSent[i].n = i - 1
    /\ Len(UpsertsSent) <= Len(article_df)
    /\ At("upsert_loop_end") # {} => Len(UpsertsSent) = Len(article_df)
    /\ \A i \in At("upsert_raised") :
          /\ Cardinality(FailureLines(log[i].n)) = 1
          /\ Cardinality(ExceptionLines(log[i].n)) = 1
          /\ IF i = Len(log)
             THEN pc = "upsert" /\ error = "" /\ k = log[i].n + 1
             ELSE \/ log[i + 1] = Event("upsert_sent", log[i].n + 1)
                  \/ /\ log[i + 1].ev = "upsert_loop_end"
                     /\ log[i].n + 1 = Len(article_df)

\* the upsert of row 0 raised, row 1 was attempted all the same, and the loop
\* has ended
C1_Witness ==
    /\ AtN("upsert_raised", 0) # {}
    /\ AtN("upsert_sent", 1) # {}
    /\ Len(article_df) = 2
    /\ pc = "count"

----------------------------------------------------------------------------
\* the points the collection 'Articles' holds
StoredPoints == qdrant[Articles].points

----------------------------------------------------------------------------
SendEvents == {"recreate_sent", "upsert_sent", "count_sent", "embed_sent",
               "search_sent"}

\* the events that can end the request sent by event ev
AnswersTo(ev) ==
    CASE ev = "recreate_sent" -> {"recreate_returned", "recreate_raised"}
      [] ev = "upsert_sent" -> {"upsert_returned", "upsert_raised"}
      [] ev = "count_sent" -> {"count_returned", "count_raised"}
      [] ev = "embed_sent" -> {"embed_returned", "embed_raised"}
      [] ev = "search_sent" -> {"search_returned", "search_raised"}

(* C3: requests are issued one at a time: at most one request is            *)
(* outstanding, an upsert request carries exactly one point, and the        *)
(* request for the next row is sent only after the request for the current  *)
(* row has returned or raised.                                              *)
C3_OneRequestAtATime ==
    /\ Cardinality(inflight) <= 1
    /\ \A req \in inflight :
          req.op = "upsert" => Len(req.points) = 1 /\ req.points[1].id = k
    /\ \A i \in 1..Len(log) :
          log[i].ev \in SendEvents =>
              IF i = Len(log)
              THEN inflight # {}
              ELSE /\ log[i + 1].ev \in AnswersTo(log[i].ev)
                   /\ log[i + 1].n = log[i].n
    /\ inflight # {} => log # <<>> /\ log[Len(log)].ev \in SendEvents
    /\ \A i \in At("upsert_sent") :
          log[i].n > 0 =>
              /\ i > 1
              /\ log[i - 1].ev \in {"upsert_returned", "upsert_raised"}
              /\ log[i - 1].n = log[i].n - 1

\* the request for row 1 is outstanding, after the request for row 0 was
\* answered
C3_Witness ==
    /\ \E req \in inflight : req.op = "upsert" /\ req.points[1].id = 1
    /\ AtN("upsert_returned", 0) # {}

----------------------------------------------------------------------------
\* whether event ev happened before position i of the log
Before(ev, i) == \E j \in 1..(i - 1) : log[j].ev = ev

\* the stage of the run an event belongs to
Stage(ev) ==
    CASE ev \in {"parse_title", "parse_content", "parse_raised", "vector_id"} -> 1
      [] ev \in {"vector_size_raised", "recreate_sent", "recreate_returned",
                 "recreate_raised"} -> 2
      [] ev \in {"upsert_sent", "upsert_returned", "upsert_raised"} -> 3
      [] ev = "upsert_loop_end" -> 4
      [] ev \in {"count_sent", "count_returned", "count_raised"} -> 5
      [] OTHER -> 6

(* C4: the steps of a run happen in a fixed order: the vector columns are   *)
(* parsed before the collection is created, the collection is created       *)
(* before the first upsert, every upsert attempt has completed (stored or   *)
(* failed) before the count and before the first search, and results are    *)
(* printed only after the search that produced them has returned.           *)
C4_FixedOrder ==
    /\ \A i \in 1..(Len(log) - 1) : Stage(log[i].ev) <= Stage(log[i + 1].ev)
    /\ \A i \in At("recreate_sent") :
          Before("parse_title", i) /\ Before("parse_content", i)
    /\ \A i \in At("upsert_sent") : Before("recreate_returned", i)
    /\ \A i \in At("upsert_loop_end") :
          /\ Cardinality(At("upsert_sent")) = Len(article_df)
          /\ Cardinality(At("upsert_returned") \cup At("upsert_raised"))
                = Len(article_df)
    /\ \A i \in At("count_sent") : Before("upsert_loop_end", i)
    /\ \A i \in At("embed_sent") :
          Before("upsert_loop_end", i) /\ Before("count_returned", i)
    /\ \A i \in At("search_sent") : log[i - 1] = Event("embed_returned", log[i].n)
    /\ \A i \in At("printed") : log[i - 1] = Event("search_returned", log[i].n)
    /\ (\E i \in 1..Len(stdout) : stdout[i].line = "result") =>
          At("search_returned") # {}

\* both query cells have printed their results over a collection of two points
C4_Witness ==
    /\ pc = "done"
    /\ AtN("printed", 2) # {}
    /\ Cardinality(StoredPoints) = 2
    /\ \E i \in 1..Len(stdout) : stdout[i].line = "result"

----------------------------------------------------------------------------
(* C5: every point stored in the collection created by the run carries both *)
(* named vectors 'title' and 'content' and a payload with exactly the keys  *)
(* id, title and url, and all five values come from the dataframe row whose *)
(* index is the point's id.                                                 *)
C5_PointsComeFromTheirRow ==
    At("recreate_returned") # {} =>
        \A p \in StoredPoints :
            /\ DOMAIN p.vector = {"title", "content"}
            /\ DOMAIN p.payload = {"id", "title", "url"}
            /\ p.id \in 0..(Len(article_df) - 1)
            /\ LET v == article_df[p.id + 1]
               IN  /\ p.vector.title = v.title_vector.v
                   /\ p.vector.content = v.content_vector.v
                   /\ p.payload.id = v.id
                   /\ p.payload.title = v.title
                   /\ p.payload.url = v.url

\* two points are stored whose title and content vectors differ
C5_Witness ==
    /\ Cardinality(StoredPoints) = 2
    /\ At("upsert_loop_end") # {}
    /\ \A p \in StoredPoints : p.vector.title # p.vector.content /\ p.payload.id # p.id

----------------------------------------------------------------------------
\* the value parameter vector_name has in a call made with arguments args
VectorNameOf(args) ==
    IF args.vector_name = {} THEN "title" ELSE CHOOSE x \in args.vector_name : TRUE

\* the value parameter top_k has in a call made with arguments args
TopKOf(args) == IF args.top_k = {} THEN 20 ELSE CHOOSE x \in args.top_k : TRUE

(* C6: query_qdrant searches the collection named by collection_name        *)
(* against exactly the vector field named by vector_name, 'title' when the  *)
(* argument is omitted: the request names that collection and that field,   *)
(* and every result's score is the similarity of the query vector to that   *)
(* field of the stored point, whatever its other field holds.               *)
C6_SearchesNamedField ==
    /\ \A req \in inflight :
          req.op = "search" =>
              /\ frame.active
              /\ req.collection_name = frame.args.collection_name
              /\ req.query_vector[1] = VectorNameOf(frame.args)
              /\ req.query_vector[2] = frame.embedded_query
    /\ pc = "print" =>
          \A i \in 1..Len(query_results) :
              \E p \in qdrant[last_call.args.collection_name].points :
                  /\ p.id = query_results[i].id
                  /\ query_results[i].score =
                        CosineE4(p.vector[VectorNameOf(last_call.args)],
                                 last_call.embedded_query)

\* a call without vector_name has returned a point scored by its title
\* vector, whose content vector would have scored differently
C6_Witness ==
    /\ pc = "print"
    /\ last_call.args.vector_name = {}
    /\ \E i \in 1..Len(query_results) : \E p \in StoredPoints :
          /\ p.id = query_results[i].id
          /\ query_results[i].score = CosineE4(p.vector.title, last_call.embedded_query)
          /\ query_results[i].score # CosineE4(p.vector.content, last_call.embedded_query)

----------------------------------------------------------------------------
\* the events of an exception that nothing catches
UncaughtEvents == {"parse_raised", "vector_size_raised", "recreate_raised",
                   "count_raised", "embed_raised", "search_raised"}

\* every failure outside the upsert loop is the last thing that happened
FailuresEndTheRun ==
    /\ \A i \in 1..Len(log) :
          log[i].ev \in UncaughtEvents =>
              /\ i = Len(log)
              /\ pc = "aborted"
              /\ error # ""
              /\ inflight = {}
              /\ ~frame.active
    /\ \A i \in At("embed_raised") :
          /\ AtN("search_sent", log[i].n) = {}
          /\ AtN("search_returned", log[i].n) = {}
          /\ AtN("printed", log[i].n) = {}

\* a failing request inside query_qdrant changes nothing but the run's end
QueryFailureStep ==
    (pc \in {"embedding", "searching"} /\ pc' \notin {"searching", "print"}) =>
        /\ pc' = "aborted"
        /\ error' # ""
        /\ query_results' = query_results
        /\ stdout' = stdout
        /\ qdrant' = qdrant
        /\ inflight' = {}

(* C7: the upsert loop is the only place where a failure is caught: a       *)
(* failure of the embedding request or of the search inside query_qdrant    *)
(* propagates and ends the run, and when the embedding request fails no     *)
(* search request is sent and no result is returned.                        *)
C7_QueryFailuresPropagate ==
    /\ []FailuresEndTheRun
    /\ [][QueryFailureStep /\ pc # "aborted"]_vars

\* the embedding request of the second call raised after the first call had
\* returned results
C7_Witness ==
    /\ pc = "aborted"
    /\ AtN("embed_raised", 2) # {}
    /\ query_results # <<>>

----------------------------------------------------------------------------
\* whether config declares both fields with the size of row 0's content vector
ConfiguredFromFirstContent(config) ==
    /\ DOMAIN config = {"title", "content"}
    /\ config.title.size = Len(article_df[1].content_vector.v)
    /\ config.content.size = config.title.size
    /\ config.title.distance = "Cosine"
    /\ config.content.distance = "Cosine"

(* C8: the collection is created with the 'title' and 'content' vector      *)
(* fields declared with the same size, the length of content_vector of row  *)
(* 0 of article_df, and both with cosine distance, whatever the length of   *)
(* title_vector and of the vectors of later rows.                           *)
C8_SizeFromFirstContentVector ==
    /\ \A req \in inflight :
          req.op = "recreate_collection" =>
              ConfiguredFromFirstContent(req.vectors_config)
    /\ At("recreate_returned") # {} =>
          /\ qdrant[Articles].exists
          /\ ConfiguredFromFirstContent(qdrant[Articles].config)
          /\ vector_size = Len(article_df[1].content_vector.v)

\* the collection is created from a dataframe whose row 0 has a title vector
\* of another length than its content vector, and whose row 1 has a content
\* vector of another length than row 0
C8_Witness ==
    /\ At("recreate_returned") # {}
    /\ Len(article_df) = 2
    /\ Len(article_df[1].title_vector.v) # Len(article_df[1].content_vector.v)
    /\ Len(article_df[2].content_vector.v) # Len(article_df[1].content_vector.v)

----------------------------------------------------------------------------
Min(a, b) == IF a <= b THEN a ELSE b

(* C9: query_qdrant returns at most top_k results (20 when the argument is  *)
(* omitted) and applies no filter, so every stored point is a candidate:    *)
(* the results are distinct stored points, top_k of them or all of them     *)
(* when the collection holds fewer.                                         *)
C9_AtMostTopKResults ==
    /\ \A req \in inflight :
          req.op = "search" =>
              /\ req.query_filter = "None"
              /\ req.limit = TopKOf(frame.args)
    /\ pc = "print" =>
          LET points == qdrant[last_call.args.collection_name].points
              ids == {query_results[i].id : i \in 1..Len(query_results)}
          IN  /\ Len(query_results) <= TopKOf(last_call.args)
              /\ Len(query_results) <= Cardinality(points)
              /\ Len(query_results) = Min(TopKOf(last_call.args), Cardinality(points))
              /\ Cardinality(ids) = Len(query_results)
              /\ ids \subseteq {p.id : p \in points}

\* a call with top_k=1 has returned one of the two stored points
C9_Witness ==
    /\ pc = "print"
    /\ last_call.args.top_k = {1}
    /\ Cardinality(StoredPoints) = 2
    /\ Len(query_results) = 1

----------------------------------------------------------------------------
\* whether call c of query_qdrant is over
CallOver(c) == c < calls \/ pc \in {"query", "print", "done", "aborted"}

\* loading and indexing the data send no embedding request
NoEmbeddingBeforeTheQueries ==
    /\ pc \in {"parse_title", "parse_content", "vector_id", "recreate1",
               "recreate2", "upsert", "count"} =>
          /\ At("embed_sent") = {}
          /\ \A req \in inflight : req.op # "embeddings.create"
    /\ \A i \in At("embed_sent") : Before("upsert_loop_end", i)

----------------------------------------------------------------------------
\* whether every vector of the parsed dataframe has the length model produces:
\* the file's embeddings were created with that model
VectorsProducedBy(model) ==
    \A i \in 1..Len(article_df) :
        /\ Len(article_df[i].title_vector.v) = ModelDim(model)
        /\ Len(article_df[i].content_vector.v) = ModelDim(model)

(* C11: every query is embedded with the one model named by                 *)
(* EMBEDDING_MODEL (text-embedding-ada-002), whatever arguments             *)
(* query_qdrant receives; the vectors of the file being produced by that    *)
(* same model, the query vector of every search has the dimension declared  *)
(* for the vector fields of the collection.                                 *)
C11_QueryEmbeddedWithTheOneModel ==
    \A req \in inflight :
        /\ req.op = "embeddings.create" =>
              /\ req.model = "text-embedding-ada-002"
              /\ req.input = frame.args.query
        /\ req.op = "search" =>
              /\ req.query_vector[2] =
                    Embedding("text-embedding-ada-002", frame.args.query)
              /\ VectorsProducedBy("text-embedding-ada-002") =>
                    \A name \in DOMAIN qdrant[Articles].config :
                        Len(req.query_vector[2]) =
                            qdrant[Articles].config[name].size

\* a further call, made with vector_name='content' and top_k=1, has its search
\* outstanding on a collection that holds both rows of the file
C11_Witness ==
    /\ calls = 3
    /\ frame.args.vector_name = {"content"}
    /\ frame.args.top_k = {1}
    /\ \E req \in inflight : req.op = "search"
    /\ VectorsProducedBy("text-embedding-ada-002")
    /\ Cardinality(StoredPoints) = 2

====
